---------------------------- MODULE Spec2Model ----------------------------
(***************************************************************************)
(* A model of BloomFilterHW.py: the class BloomFilter (sizing,             *)
(* construction, insert, find, falsePositiveRate, numBitsSet) driven by a  *)
(* single caller.  insert and find advance one loop iteration per step.    *)
(* A second specification, SpecRace, has two threads insert into one       *)
(* filter without a lock, a step being one read or write of shared state.  *)
(*                                                                         *)
(* Rates are exact rationals <<numerator, denominator>>.  BitHash and      *)
(* BitVector are imported libraries: BitHash is a deterministic table      *)
(* hash[key][seed] fixed before the filter is built, BitVector a function  *)
(* from 0..size-1 to {0, 1}.                                               *)
(***************************************************************************)
EXTENDS Integers, FiniteSets, Sequences, TLC

\* The keys the caller inserts and looks up.
Keys == {"a", "b"}

\* The caller's numKeys argument ranges over 0..MaxNumKeys.
MaxNumKeys == 2

\* The caller's numHashes argument ranges over 0..MaxNumHashes.
MaxNumHashes == 2

\* BitHash returns a value in 0..HashRange-1.
HashRange == 2

\* The caller's maxFalsePositive argument: 0, 1/2, 3/4, 1 and 5/4.
Rates == {<<0, 1>>, <<1, 2>>, <<3, 4>>, <<1, 1>>, <<5, 4>>}

Raws == 0 .. (HashRange - 1)

VARIABLES
    pc,          \* the caller's position: "new", "idle", "insert", "find",
                 \* "failed" (the constructor raised), "raised" (a method raised)
    args,        \* the arguments the caller passes to BloomFilter(...)
    hash,        \* the BitHash table: hash[key][seed]
    size,        \* self.__size
    numKeys,     \* self.__numKeys
    numHashes,   \* self.__numHashes
    maxFalse,    \* self.__maxFalse
    bitVec,      \* self.__bitVec
    numBitsSet,  \* self.__numBitsSet
    key,         \* the key of the insert or find in progress
    i,           \* its loop variable: the iterations completed so far
    seed,        \* its local seed
    ret,         \* what the last completed call returned
    err,         \* the exception raised, "" when none
    calls,       \* BitHash calls made by the current or last insert / find
    inserted,    \* history: the keys passed to insert so far
    prevFind,    \* history: per key, the result of its last find since it was
                 \* last passed to insert ("none", "T", "F")
    quiet,       \* history: per key, no insert was called since that find
    foundTrue,   \* history: the keys for which some find returned True
    probed,      \* history: the indices hashVal the current or last insert /
                 \* find has probed, in order
    snap,        \* history: the key of the current or last insert / find,
                 \* and the filter as it was when that call began
    threads,     \* two callers sharing the filter without exclusion: per
                 \* thread, the position and the locals of its insert
    overlap      \* history: some thread stepped while the other's insert
                 \* was in progress

vars == <<pc, args, hash, size, numKeys, numHashes, maxFalse, bitVec,
          numBitsSet, key, i, seed, ret, err, calls, inserted, prevFind, quiet,
          foundTrue, probed, snap, threads, overlap>>

fields == <<size, numKeys, numHashes, maxFalse, bitVec, numBitsSet>>
locals == <<key, i, seed>>
history == <<inserted, prevFind, quiet, foundTrue>>

NoKey == ""
NoRet == [op |-> "none"]
\* The two threads of the unsynchronised use.
Threads == {1, 2}

\* A thread that is not in a call: its locals hold nothing.
NoCall == [pc |-> "start", key |-> NoKey, i |-> 0, seed |-> 0, rawHash |-> 0,
           hashVal |-> 0, tmp |-> 0]

race == <<threads, overlap>>

\* What the single caller's steps read and write besides the filter.
sequential == <<pc, args, locals, ret, err, calls, history, probed, snap>>

NoSnap == [key |-> NoKey]

-----------------------------------------------------------------------------
(* Arithmetic *)

RECURSIVE Pow(_, _)
Pow(x, e) == IF e = 0 THEN 1 ELSE x * Pow(x, e - 1)

\* p <= (1 - (1 - k/m)^n)^k for p = a/b, in integers: exactly the condition
\* k / (1 - (1 - p^(1/k))^(1/n)) >= m when 0 < p <= 1 and m >= k.
BitsAtLeast(m, n, k, p) ==
    p[1] * Pow(m, n * k) <= p[2] * Pow(Pow(m, n) - Pow(m - k, n), k)

RECURSIVE FloorFrom(_, _, _, _)
FloorFrom(m, n, k, p) ==
    IF BitsAtLeast(m + 1, n, k, p) THEN FloorFrom(m + 1, n, k, p) ELSE m

\* __bitsNeeded with the integer division of Python 2: 1 / numHashes and
\* 1 / numKeys are 0 unless the divisor is 1, and x**0 is 1.
bitsNeededIntDiv(numKeysArg, numHashesArg, maxFalsePositive) ==
    IF numHashesArg = 0 \/ numKeysArg = 0
    THEN [raises |-> "ZeroDivisionError", value |-> 0]
    ELSE IF numKeysArg >= 2
    THEN [raises |-> "ZeroDivisionError", value |-> 0]   \* val**0 = 1: numHashes / 0
    ELSE IF numHashesArg >= 2
    THEN [raises |-> "", value |-> numHashesArg]         \* val = 0: numHashes / 1
    ELSE IF maxFalsePositive[1] = 0
    THEN [raises |-> "ZeroDivisionError", value |-> 0]
    ELSE [raises |-> "", value |-> FloorFrom(0, 1, 1, maxFalsePositive)]

\* BloomFilter.__bitsNeeded: the outcome of lines 11-13, an exception or
\* int(numHashes / (1 - (1 - maxFalsePositive**(1/numHashes))**(1/numKeys))).
bitsNeeded(numKeysArg, numHashesArg, maxFalsePositive) ==
    IF numHashesArg = 0
    THEN [raises |-> "ZeroDivisionError", value |-> 0]   \* 1 / numHashes
    ELSE IF numKeysArg = 0
    THEN [raises |-> "ZeroDivisionError", value |-> 0]   \* 1 / numKeys
    ELSE IF maxFalsePositive[1] = 0
    THEN [raises |-> "ZeroDivisionError", value |-> 0]   \* val = 1: numHashes / 0
    ELSE IF maxFalsePositive[1] > maxFalsePositive[2] /\ numKeysArg >= 2
    THEN [raises |-> "TypeError", value |-> 0]           \* val < 0: int(complex)
    ELSE IF maxFalsePositive[1] > maxFalsePositive[2]
    THEN \* numKeys = 1 and val < 0: bits = numHashes / p**(1/numHashes) < numHashes
         [raises |-> "", value |-> FloorFrom(0, 1, numHashesArg, maxFalsePositive)]
    ELSE [raises |-> "", value |-> FloorFrom(numHashesArg, numKeysArg, numHashesArg,
                                             maxFalsePositive)]

\* Rates that sizing is compared on: 1/2, 5/8, 3/4 and 7/8.
SizingRates == {<<1, 2>>, <<5, 8>>, <<3, 4>>, <<7, 8>>}

\* Rate p is at most rate q.
RateLeq(p, q) == p[1] * q[2] <= q[1] * p[2]

\* The documented domain of the sizing inputs.
ValidParameters(n, k, p) == n >= 1 /\ k >= 1 /\ 0 < p[1] /\ p[1] < p[2]

-----------------------------------------------------------------------------
(* The imported libraries *)

\* BitVector(size = n): n bits, all 0.
BitVector(n) == [idx \in 0 .. (n - 1) |-> 0]

\* The seeds a key's chain passes to BitHash in k calls, from seed s.
RECURSIVE SeedsQueried(_, _, _)
SeedsQueried(h, s, k) ==
    IF k = 0 THEN {} ELSE {s} \cup SeedsQueried(h, h[s], k - 1)

\* The deterministic hash tables of one key.  The entries no call can read
\* (seeds off the key's chain of k calls from seed 0) are fixed at 0.
KeyOracles(k) ==
    {h \in [Raws -> Raws] : \A s \in Raws \ SeedsQueried(h, 0, k) : h[s] = 0}

BitHash(k, s) == hash[k][s]

-----------------------------------------------------------------------------
(* Initial state: the caller holds its arguments, no filter exists yet. *)

Init ==
    /\ pc = "new"
    /\ args \in [numKeys : 0 .. MaxNumKeys, numHashes : 0 .. MaxNumHashes,
                 maxFalsePositive : Rates]
    /\ hash \in [Keys -> KeyOracles(args.numHashes)]
    /\ size = 0
    /\ numKeys = 0
    /\ numHashes = 0
    /\ maxFalse = <<0, 1>>
    /\ bitVec = BitVector(0)
    /\ numBitsSet = 0
    /\ key = NoKey
    /\ i = 0
    /\ seed = 0
    /\ ret = NoRet
    /\ err = ""
    /\ calls = 0
    /\ inserted = {}
    /\ prevFind = [k \in Keys |-> "none"]
    /\ quiet = [k \in Keys |-> FALSE]
    /\ foundTrue = {}
    /\ probed = <<>>
    /\ snap = NoSnap
    /\ threads = [t \in Threads |-> NoCall]
    /\ overlap = FALSE

-----------------------------------------------------------------------------
(* BloomFilter.__init__ *)

\* newFilter with lines 23 and 24 assigning each other's argument.
newFilterSwapped(bits, a) ==
    [size |-> bits,
     numKeys |-> a.numHashes,
     numHashes |-> a.numKeys,
     maxFalse |-> a.maxFalsePositive,
     bitVec |-> BitVector(bits),
     numBitsSet |-> 0]

\* Lines 22-27: the attributes of the new object, bits being what
\* __bitsNeeded returned.
newFilter(bits, a) ==
    [size |-> bits,
     numKeys |-> a.numKeys,
     numHashes |-> a.numHashes,
     maxFalse |-> a.maxFalsePositive,
     bitVec |-> BitVector(bits),
     numBitsSet |-> 0]

\* BloomFilter(numKeys, numHashes, maxFalsePositive).  __bitsNeeded runs
\* first (line 22): when it raises, no attribute has been assigned and the
\* caller gets no object.
Create ==
    /\ pc = "new"
    /\ LET r == bitsNeeded(args.numKeys, args.numHashes, args.maxFalsePositive)
           f == newFilter(r.value, args)
       IN  IF r.raises # ""
           THEN /\ pc' = "failed"
                /\ err' = r.raises
                /\ UNCHANGED <<fields, ret>>
           ELSE /\ size' = f.size
                /\ numKeys' = f.numKeys
                /\ numHashes' = f.numHashes
                /\ maxFalse' = f.maxFalse
                /\ bitVec' = f.bitVec
                /\ numBitsSet' = f.numBitsSet
                /\ pc' = "idle"
                /\ ret' = [op |-> "create"]
                /\ err' = ""
    /\ UNCHANGED <<race, args, hash, locals, calls, history, probed, snap>>

-----------------------------------------------------------------------------
(* BloomFilter.insert *)

\* Line 37 without the modulo: the raw hash indexes the bit vector.
hashValRaw(rawHash, sz) == rawHash

\* Line 37 with the index pushed on by the number of bits set so far.
hashValShifted(rawHash, sz) == (rawHash + numBitsSet) % sz

\* Line 37 (and 49): hashVal = rawHash % self.__size.
hashValOf(rawHash, sz) == rawHash % sz

\* insertBit without line 39: the bit is counted and never set.
insertBitCountOnly(bv, cnt, hashVal) ==
    IF bv[hashVal] # 1
    THEN [bitVec |-> bv, numBitsSet |-> cnt + 1]
    ELSE [bitVec |-> bv, numBitsSet |-> cnt]

\* insertBit without line 38's test: every probe is counted.
insertBitAlways(bv, cnt, hashVal) ==
    [bitVec |-> [bv EXCEPT ![hashVal] = 1], numBitsSet |-> cnt + 1]

\* insertBit as a toggle: a bit already set is cleared and uncounted.
insertBitToggle(bv, cnt, hashVal) ==
    IF bv[hashVal] # 1
    THEN [bitVec |-> [bv EXCEPT ![hashVal] = 1], numBitsSet |-> cnt + 1]
    ELSE [bitVec |-> [bv EXCEPT ![hashVal] = 0], numBitsSet |-> cnt - 1]

\* insertBit writing the complement of the bit, the count kept in step.
insertBitFlip(bv, cnt, hashVal) ==
    [bitVec |-> [bv EXCEPT ![hashVal] = 1 - bv[hashVal]],
     numBitsSet |-> IF bv[hashVal] # 1 THEN cnt + 1 ELSE cnt - 1]

\* insertBit without line 40: the bit is set and never counted.
insertBitUncounted(bv, cnt, hashVal) ==
    [bitVec |-> [bv EXCEPT ![hashVal] = 1], numBitsSet |-> cnt]

\* Lines 38-40: set the bit and count it, unless it is set already.
insertBit(bv, cnt, hashVal) ==
    IF bv[hashVal] # 1
    THEN [bitVec |-> [bv EXCEPT ![hashVal] = 1], numBitsSet |-> cnt + 1]
    ELSE [bitVec |-> bv, numBitsSet |-> cnt]

\* Lines 41 and 52 left out: every iteration hashes with the seed it got.
nextSeedKept(rawHash, s) == s

\* Line 41 (and 52): seed = rawHash.
nextSeed(rawHash, s) == rawHash

\* What a call with key k finds: the key, whether it was inserted before,
\* the bit vector and the count.
CallSnap(k) ==
    [key |-> k, was |-> k \in inserted, bitVec |-> bitVec, numBitsSet |-> numBitsSet]

\* The call insert(k): line 34.
InsertCall(k) ==
    /\ pc = "idle"
    /\ pc' = "insert"
    /\ key' = k
    /\ i' = 0
    /\ seed' = 0
    /\ calls' = 0
    /\ ret' = NoRet
    /\ inserted' = inserted \cup {k}
    /\ prevFind' = [prevFind EXCEPT ![k] = "none"]
    /\ quiet' = [x \in Keys |-> FALSE]
    /\ probed' = <<>>
    /\ snap' = CallSnap(k)
    /\ UNCHANGED <<race, args, hash, fields, err, foundTrue>>

\* InsertStep hashing twice in an iteration: once for hashVal, and once
\* more for the next seed.
InsertStepRehash ==
    /\ pc = "insert"
    /\ i < numHashes
    /\ size > 0
    /\ LET rawHash == BitHash(key, seed)
           hashVal == hashValOf(rawHash, size)
           r == insertBit(bitVec, numBitsSet, hashVal)
       IN  /\ calls' = calls + 2
           /\ bitVec' = r.bitVec
           /\ numBitsSet' = r.numBitsSet
           /\ seed' = nextSeed(BitHash(key, seed), seed)
           /\ i' = i + 1
           /\ probed' = Append(probed, hashVal)
           /\ UNCHANGED <<pc, err, key>>
    /\ UNCHANGED <<race, args, hash, size, numKeys, numHashes, maxFalse, ret, history,
                   snap>>

\* One iteration of the loop, lines 36-41.
InsertStep ==
    /\ pc = "insert"
    /\ i < numHashes
    /\ LET rawHash == BitHash(key, seed)
       IN  /\ calls' = calls + 1
           /\ IF size = 0
              THEN /\ pc' = "raised"
                   /\ err' = "ZeroDivisionError"
                   /\ UNCHANGED <<bitVec, numBitsSet, locals, probed>>
              ELSE LET hashVal == hashValOf(rawHash, size)
                   IN  IF hashVal \notin DOMAIN bitVec
                       THEN /\ pc' = "raised"
                            /\ err' = "IndexError"
                            /\ UNCHANGED <<bitVec, numBitsSet, locals, probed>>
                       ELSE LET r == insertBit(bitVec, numBitsSet, hashVal)
                            IN  /\ bitVec' = r.bitVec
                                /\ numBitsSet' = r.numBitsSet
                                /\ seed' = nextSeed(rawHash, seed)
                                /\ i' = i + 1
                                /\ probed' = Append(probed, hashVal)
                                /\ UNCHANGED <<pc, err, key>>
    /\ UNCHANGED <<race, args, hash, size, numKeys, numHashes, maxFalse, ret, history,
                   snap>>

\* The loop is over: insert returns None.
InsertReturn ==
    /\ pc = "insert"
    /\ i >= numHashes
    /\ pc' = "idle"
    /\ ret' = [op |-> "insert"]
    /\ key' = NoKey
    /\ i' = 0
    /\ seed' = 0
    /\ UNCHANGED <<race, args, hash, fields, err, calls, history, probed, snap>>

-----------------------------------------------------------------------------
(* BloomFilter.find *)

\* Line 50 testing the wrong bit: the first one, whatever the probe.
bitIsClearFirst(bv, hashVal) == bv[0] = 0

\* Line 50: the test that makes find return False.
bitIsClear(bv, hashVal) == bv[hashVal] = 0

\* What find's history records when find(k) returns val.
FindReturns(k, val) ==
    /\ pc' = "idle"
    /\ ret' = [op |-> "find", key |-> k, val |-> val]
    /\ key' = NoKey
    /\ i' = 0
    /\ seed' = 0
    /\ prevFind' = [prevFind EXCEPT ![k] = IF val THEN "T" ELSE "F"]
    /\ quiet' = [quiet EXCEPT ![k] = TRUE]
    /\ foundTrue' = IF val THEN foundTrue \cup {k} ELSE foundTrue
    /\ UNCHANGED <<err, inserted>>

\* The call find(k): line 46.
FindCall(k) ==
    /\ pc = "idle"
    /\ pc' = "find"
    /\ key' = k
    /\ i' = 0
    /\ seed' = 0
    /\ calls' = 0
    /\ ret' = NoRet
    /\ probed' = <<>>
    /\ snap' = CallSnap(k)
    /\ UNCHANGED <<race, args, hash, fields, err, history>>

\* FindStep written after insert's loop: a clear bit is set and counted
\* before find returns False.
FindStepMarks ==
    /\ pc = "find"
    /\ i < numHashes
    /\ LET rawHash == BitHash(key, seed)
           hashVal == hashValOf(rawHash, size)
       IN  /\ calls' = calls + 1
           /\ size > 0
           /\ IF bitIsClear(bitVec, hashVal)
              THEN /\ bitVec' = [bitVec EXCEPT ![hashVal] = 1]
                   /\ numBitsSet' = numBitsSet + 1
                   /\ FindReturns(key, FALSE)
              ELSE /\ seed' = nextSeed(rawHash, seed)
                   /\ i' = i + 1
                   /\ UNCHANGED <<pc, err, key, ret, history, bitVec, numBitsSet>>
           /\ probed' = Append(probed, hashVal)
    /\ UNCHANGED <<race, args, hash, size, numKeys, numHashes, maxFalse, snap>>

\* One iteration of the loop, lines 48-52.
FindStep ==
    /\ pc = "find"
    /\ i < numHashes
    /\ LET rawHash == BitHash(key, seed)
       IN  /\ calls' = calls + 1
           /\ IF size = 0
              THEN /\ pc' = "raised"
                   /\ err' = "ZeroDivisionError"
                   /\ UNCHANGED <<locals, ret, history, probed>>
              ELSE LET hashVal == hashValOf(rawHash, size)
                   IN  IF hashVal \notin DOMAIN bitVec
                       THEN /\ pc' = "raised"
                            /\ err' = "IndexError"
                            /\ UNCHANGED <<locals, ret, history, probed>>
                       ELSE IF bitIsClear(bitVec, hashVal)
                       THEN /\ FindReturns(key, FALSE)
                            /\ probed' = Append(probed, hashVal)
                       ELSE /\ seed' = nextSeed(rawHash, seed)
                            /\ i' = i + 1
                            /\ probed' = Append(probed, hashVal)
                            /\ UNCHANGED <<pc, err, key, ret, history>>
    /\ UNCHANGED <<race, args, hash, fields, snap>>

\* The loop is over: line 53, return True.
FindReturn ==
    /\ pc = "find"
    /\ i >= numHashes
    /\ FindReturns(key, TRUE)
    /\ UNCHANGED <<race, args, hash, fields, calls, probed, snap>>

-----------------------------------------------------------------------------
(* BloomFilter.falsePositiveRate and BloomFilter.numBitsSet *)

\* projectedRate from the target key count self.__numKeys instead of the
\* count of bits set.
projectedRateFromTarget(bitsSet, sz, k) ==
    LET numBitsZero == sz - numKeys
        prop == <<numBitsZero, sz>>
        oneMinus == <<prop[2] - prop[1], prop[2]>>
    IN  <<Pow(oneMinus[1], k), Pow(oneMinus[2], k)>>

\* Lines 61-65 after line 63's division: the rate as a rational, from the
\* count numBitsSet() returned.
projectedRate(bitsSet, sz, k) ==
    LET numBitsZero == sz - bitsSet          \* line 62
        prop == <<numBitsZero, sz>>          \* line 63
        oneMinus == <<prop[2] - prop[1], prop[2]>>
    IN  <<Pow(oneMinus[1], k), Pow(oneMinus[2], k)>>   \* line 64

\* falsePositiveRate keeping line 62's result in the counter's attribute.
FalsePositiveRateStores ==
    /\ pc = "idle"
    /\ size > 0
    /\ ret' = [op |-> "falsePositiveRate",
               val |-> projectedRate(numBitsSet, size, numHashes)]
    /\ numBitsSet' = size - numBitsSet
    /\ UNCHANGED <<race, pc, err, args, hash, size, numKeys, numHashes, maxFalse, bitVec,
                   locals, calls, history, probed, snap>>

\* falsePositiveRate(): lines 61-65; line 63 divides by self.__size.
FalsePositiveRate ==
    /\ pc = "idle"
    /\ IF size = 0
       THEN /\ pc' = "raised"
            /\ err' = "ZeroDivisionError"
            /\ UNCHANGED ret
       ELSE /\ ret' = [op |-> "falsePositiveRate",
                       val |-> projectedRate(numBitsSet, size, numHashes)]
            /\ UNCHANGED <<pc, err>>
    /\ UNCHANGED <<race, args, hash, fields, locals, calls, history, probed, snap>>

\* Line 71.
NumBitsSet ==
    /\ pc = "idle"
    /\ ret' = [op |-> "numBitsSet", val |-> numBitsSet]
    /\ UNCHANGED <<race, pc, err, args, hash, fields, locals, calls, history, probed,
                   snap>>

-----------------------------------------------------------------------------
(* BloomFilter.insert called by two threads on one filter, with no lock:   *)
(* a step is the hashing of lines 36-37, the read of the bit in line 38,   *)
(* the write of the bit in line 39, the read of the counter in line 40 or  *)
(* the write of the counter in line 40.  Line 41 and the loop test touch   *)
(* locals only and go with the step before them.                           *)

\* Thread u is inside insert.
Busy(u) == threads[u].pc \notin {"start", "done", "raised"}

\* Thread t takes a step: it overlaps a call of another thread in progress.
Overlaps(t) == overlap \/ \E u \in Threads \ {t} : Busy(u)

\* Thread t with its iteration over: line 41, then the loop goes on or
\* insert returns.
IterationDone(t) ==
    LET c == threads[t]
    IN  IF c.i + 1 < numHashes
        THEN [NoCall EXCEPT !.pc = "hash", !.key = c.key, !.i = c.i + 1,
                            !.seed = nextSeed(c.rawHash, c.seed)]
        ELSE [NoCall EXCEPT !.pc = "done", !.key = c.key]

\* Thread t calls insert(k): line 34.
ThreadCall(t, k) ==
    /\ pc = "threads"
    /\ threads[t].pc = "start"
    /\ threads' = [threads EXCEPT ![t] = [NoCall EXCEPT !.pc = "hash", !.key = k]]
    /\ overlap' = Overlaps(t)
    /\ UNCHANGED <<sequential, hash, fields>>

\* Lines 36-37.
ThreadHash(t) ==
    /\ pc = "threads"
    /\ threads[t].pc = "hash"
    /\ LET c == threads[t]
           rawHash == BitHash(c.key, c.seed)
       IN  threads' = [threads EXCEPT ![t] =
               IF size = 0
               THEN [NoCall EXCEPT !.pc = "raised", !.key = c.key]
               ELSE [c EXCEPT !.pc = "readBit", !.rawHash = rawHash,
                              !.hashVal = hashValOf(rawHash, size)]]
    /\ overlap' = Overlaps(t)
    /\ UNCHANGED <<sequential, hash, fields>>

\* ThreadReadBit without the test of line 38: the bit is written and
\* counted whatever it is.
ThreadReadBitBlind(t) ==
    /\ pc = "threads"
    /\ threads[t].pc = "readBit"
    /\ threads' = [threads EXCEPT ![t].pc = "writeBit"]
    /\ overlap' = Overlaps(t)
    /\ UNCHANGED <<sequential, hash, fields>>

\* Line 38: the bit is read and tested.
ThreadReadBit(t) ==
    /\ pc = "threads"
    /\ threads[t].pc = "readBit"
    /\ threads' = [threads EXCEPT ![t] =
           IF bitVec[threads[t].hashVal] # 1
           THEN [threads[t] EXCEPT !.pc = "writeBit"]
           ELSE IterationDone(t)]
    /\ overlap' = Overlaps(t)
    /\ UNCHANGED <<sequential, hash, fields>>

\* Line 39.
ThreadWriteBit(t) ==
    /\ pc = "threads"
    /\ threads[t].pc = "writeBit"
    /\ bitVec' = [bitVec EXCEPT ![threads[t].hashVal] = 1]
    /\ threads' = [threads EXCEPT ![t].pc = "readCount"]
    /\ overlap' = Overlaps(t)
    /\ UNCHANGED <<sequential, hash, size, numKeys, numHashes, maxFalse, numBitsSet>>

\* Line 40, the right-hand side: self.__numBitsSet is read.
ThreadReadCount(t) ==
    /\ pc = "threads"
    /\ threads[t].pc = "readCount"
    /\ threads' = [threads EXCEPT ![t].pc = "writeCount", ![t].tmp = numBitsSet]
    /\ overlap' = Overlaps(t)
    /\ UNCHANGED <<sequential, hash, fields>>

\* Line 40, the assignment: what was read, plus 1, is stored.
ThreadWriteCount(t) ==
    /\ pc = "threads"
    /\ threads[t].pc = "writeCount"
    /\ numBitsSet' = threads[t].tmp + 1
    /\ threads' = [threads EXCEPT ![t] = IterationDone(t)]
    /\ overlap' = Overlaps(t)
    /\ UNCHANGED <<sequential, hash, size, numKeys, numHashes, maxFalse, bitVec>>

\* A filter just built, handed to the two threads.
InitRace ==
    /\ pc = "threads"
    /\ args \in [numKeys : 0 .. MaxNumKeys, numHashes : 0 .. MaxNumHashes,
                 maxFalsePositive : Rates]
    /\ hash \in [Keys -> KeyOracles(args.numHashes)]
    /\ LET r == bitsNeeded(args.numKeys, args.numHashes, args.maxFalsePositive)
           f == newFilter(r.value, args)
       IN  /\ r.raises = ""
           /\ size = f.size
           /\ numKeys = f.numKeys
           /\ numHashes = f.numHashes
           /\ maxFalse = f.maxFalse
           /\ bitVec = f.bitVec
           /\ numBitsSet = f.numBitsSet
    /\ key = NoKey
    /\ i = 0
    /\ seed = 0
    /\ ret = [op |-> "create"]
    /\ err = ""
    /\ calls = 0
    /\ inserted = {}
    /\ prevFind = [k \in Keys |-> "none"]
    /\ quiet = [k \in Keys |-> FALSE]
    /\ foundTrue = {}
    /\ probed = <<>>
    /\ snap = NoSnap
    /\ threads = [t \in Threads |-> NoCall]
    /\ overlap = FALSE

NextRace ==
    \/ \E t \in Threads, k \in Keys : ThreadCall(t, k)
    \/ \E t \in Threads : ThreadHash(t)
    \/ \E t \in Threads : ThreadReadBit(t)
    \/ \E t \in Threads : ThreadWriteBit(t)
    \/ \E t \in Threads : ThreadReadCount(t)
    \/ \E t \in Threads : ThreadWriteCount(t)

SpecRace == InitRace /\ [][NextRace]_vars

-----------------------------------------------------------------------------

Next ==
    \/ Create
    \/ \E k \in Keys : InsertCall(k)
    \/ InsertStep
    \/ InsertReturn
    \/ \E k \in Keys : FindCall(k)
    \/ FindStep
    \/ FindReturn
    \/ FalsePositiveRate
    \/ NumBitsSet

Spec == Init /\ [][Next]_vars

-----------------------------------------------------------------------------
(* What the properties below speak of *)

\* A filter object exists.
Exists == pc \notin {"new", "failed"}

\* The filter was built from arguments in the documented domain.
ValidFilter == Exists /\ ValidParameters(numKeys, numHashes, maxFalse)

\* The indices of the bits that are 1.
BitsSet(bv) == {idx \in DOMAIN bv : bv[idx] = 1}

\* The indices insert and find derive for key k in n iterations from seed s
\* (lines 34-37 and 41, 46-49 and 52).
RECURSIVE ProbesFrom(_, _, _)
ProbesFrom(k, s, n) ==
    IF n = 0
    THEN {}
    ELSE LET rawHash == BitHash(k, s)
         IN  {hashValOf(rawHash, size)} \cup ProbesFrom(k, nextSeed(rawHash, s), n - 1)

ProbeIndices(k) == ProbesFrom(k, 0, numHashes)

\* The chained probe sequence as the design states it: raw = hash(key, seed),
\* index = raw mod size, and raw is the next seed; n indices from seed s.
RECURSIVE ChainFrom(_, _, _)
ChainFrom(k, s, n) ==
    IF n = 0
    THEN <<>>
    ELSE <<hash[k][s] % size>> \o ChainFrom(k, hash[k][s], n - 1)

\* The chain of key k: seed 0, numHashes indices.
\* The seed after n hashes of key k from seed s: seed_0 = s, seed_(j+1) =
\* raw_j.
RECURSIVE SeedFrom(_, _, _)
SeedFrom(k, s, n) == IF n = 0 THEN s ELSE SeedFrom(k, hash[k][s], n - 1)

ChainSeq(k) == ChainFrom(k, 0, numHashes)

\* The set of indices on the chain of key k.
ChainSet(k) == {ChainSeq(k)[j] : j \in 1 .. numHashes}

\* The probe indices of all the keys of a set.
ChainSetOfAll(ks) == UNION {ChainSet(k) : k \in ks}

-----------------------------------------------------------------------------
(* C1 - No false negatives: whenever find(K) returns for a key K that was  *)
(* passed to insert before, whatever other keys were inserted since, it    *)
(* returns true.                                                           *)
NoFalseNegatives ==
    (ret.op = "find" /\ ret.key \in inserted) => ret.val = TRUE

\* find returned for an inserted key after both keys were inserted, and the
\* two keys do not probe the same bits.
NoFalseNegativesWitness ==
    /\ ValidFilter
    /\ ret.op = "find"
    /\ ret.key \in inserted
    /\ inserted = Keys
    /\ ProbeIndices("a") # ProbeIndices("b")

(* C2 - In every reachable state numBitsSet() is the number of bits that   *)
(* are 1 in the bit vector.                                                *)
CountMatchesBits ==
    numBitsSet = Cardinality(BitsSet(bitVec))

\* Two bits are set and counted, after an insert whose probes hit a bit
\* that was set already.
CountMatchesBitsWitness ==
    /\ ValidFilter
    /\ ret.op = "insert"
    /\ numBitsSet = 2
    /\ \E k \in Keys : Cardinality(ProbeIndices(k)) < numHashes

(* C3 - Monotonic fill: no step lowers numBitsSet(), and numBitsSet() is   *)
(* at most the number of bits in every reachable state.                    *)
MonotonicFill ==
    [](numBitsSet <= size) /\ [][numBitsSet' >= numBitsSet]_vars

\* Every bit of a filter of two or more bits is set.
MonotonicFillWitness ==
    /\ ValidFilter
    /\ size >= 2
    /\ numBitsSet = size
    /\ inserted = Keys

(* C4 - Bits only go from 0 to 1: in every step of every operation a bit   *)
(* that is 1 before the step is 1 after it.                                *)
BitsNeverReset ==
    [][\A idx \in DOMAIN bitVec :
          bitVec[idx] = 1 => (idx \in DOMAIN bitVec' /\ bitVec'[idx] = 1)]_vars

\* An insert is probing, as its second iteration, a bit that is set.
BitsNeverResetWitness ==
    /\ ValidFilter
    /\ pc = "insert"
    /\ i = 1
    /\ i < numHashes
    /\ bitVec[hashValOf(BitHash(key, seed), size)] = 1

(* C5 - find(key) returns true exactly when all the bits at the key's      *)
(* numHashes chained probe indices are 1, and false exactly when one of    *)
(* them is 0: returning at the first 0 bit gives the result of evaluating  *)
(* every probe.                                                            *)
FindIffAllProbeBitsSet ==
    ret.op = "find" =>
        (ret.val <=> \A idx \in ProbeIndices(ret.key) : bitVec[idx] = 1)

\* find returned False before its last iteration, and the bit of a later
\* probe is set.
FindIffAllProbeBitsSetWitness ==
    /\ ValidFilter
    /\ ret.op = "find"
    /\ ret.val = FALSE
    /\ calls < numHashes
    /\ \E idx \in ProbeIndices(ret.key) : bitVec[idx] = 1

(* C6 as stated - Determinism of find: on a filter built from valid        *)
(* parameters, when find(K) returns and K was not passed to insert since   *)
(* K's previous find (other keys may have been), it returns what that      *)
(* previous find returned.                                                 *)
FindSameSinceOwnInsert ==
    [][(ValidFilter /\ pc = "find" /\ pc' = "idle" /\ prevFind[key] # "none")
          => ret'.val = (prevFind[key] = "T")]_vars

(* C6 as amended - when find(K) returns and no key at all was passed to    *)
(* insert since K's previous find, it returns what that previous find      *)
(* returned.                                                               *)
FindSameSinceAnyInsert ==
    [][(pc = "find" /\ pc' = "idle" /\ prevFind[key] # "none" /\ quiet[key])
          => ret'.val = (prevFind[key] = "T")]_vars

\* A second find of a key, with no insert since the first one returned
\* False, has probed and is about to return.
FindSameSinceAnyInsertWitness ==
    /\ ValidFilter
    /\ pc = "find"
    /\ prevFind[key] = "F"
    /\ quiet[key]
    /\ inserted # {}
    /\ bitIsClear(bitVec, hashValOf(BitHash(key, seed), size))

(* C7 - Construction with sizing inputs outside the domain ends in an      *)
(* error raised by the constructor, and no filter is produced: none of the *)
(* attributes has been assigned.                                           *)
InvalidParametersRejected ==
    (pc # "new" /\ ~ValidParameters(args.numKeys, args.numHashes,
                                    args.maxFalsePositive))
        => /\ pc = "failed"
           /\ err # ""
           /\ <<size, numKeys, numHashes, bitVec, numBitsSet>>
                  = <<0, 0, 0, BitVector(0), 0>>

(* C8 - On a filter built from valid parameters no insert and no find      *)
(* raises, in any state and for any key: a call in progress has made one   *)
(* BitHash call per iteration, at most numHashes of them, and can take its *)
(* next step; insert returns after numHashes probes with no value, find    *)
(* after at most numHashes probes with a boolean.                          *)
OperationsComplete ==
    ValidFilter =>
        /\ pc # "raised"
        /\ err = ""
        /\ pc = "insert" =>
               (calls = i /\ i <= numHashes /\ ENABLED (InsertStep \/ InsertReturn))
        /\ pc = "find" =>
               (calls = i /\ i <= numHashes /\ ENABLED (FindStep \/ FindReturn))
        /\ ret.op = "insert" => (calls = numHashes /\ DOMAIN ret = {"op"})
        /\ ret.op = "find" =>
               (calls >= 1 /\ calls <= numHashes /\ ret.val \in BOOLEAN)

\* The insert of a key whose first raw hash is not below the size of the
\* bit vector has returned.
OperationsCompleteWitness ==
    /\ ValidFilter
    /\ ret.op = "insert"
    /\ calls = numHashes
    /\ \E k \in Keys : inserted = {k} /\ BitHash(k, 0) >= size

FreshFilter ==
    (ret.op = "create" /\ ValidParameters(args.numKeys, args.numHashes,
                                          args.maxFalsePositive))
        => /\ pc = "idle"
           /\ size > 0
           /\ numHashes = args.numHashes
           /\ numHashes > 0
           /\ DOMAIN bitVec = 0 .. (size - 1)
           /\ \A idx \in 0 .. (size - 1) : bitVec[idx] = 0
           /\ numBitsSet = 0

\* A new filter of three bits built for two keys and one hash.
FreshFilterWitness ==
    /\ ret.op = "create"
    /\ ValidFilter
    /\ numKeys = 2
    /\ numHashes = 1
    /\ size = 3

(* C11 as stated - On a filter built from valid parameters BitHash is      *)
(* called exactly numHashes times in every insert and in every find,       *)
(* whatever the key and the bits.                                          *)
HashCallsAlwaysNumHashes ==
    (ValidFilter /\ ret.op \in {"insert", "find"}) => calls = numHashes

(* C11 as amended - BitHash is called exactly numHashes times in every     *)
(* insert and in every find that returns True; a find that returns False   *)
(* has called it once per probe up to and including the first probe whose  *)
(* bit is 0, so between 1 and numHashes times.                             *)
HashCallsPerOperation ==
    /\ ret.op = "insert" => calls = numHashes
    /\ (ret.op = "find" /\ ret.val) => calls = numHashes
    /\ (ret.op = "find" /\ ~ret.val) =>
           /\ calls \in 1 .. numHashes
           /\ bitVec[ChainSeq(ret.key)[calls]] = 0
           /\ \A j \in 1 .. (calls - 1) : bitVec[ChainSeq(ret.key)[j]] = 1

\* A find of two probes returned False after one BitHash call.
HashCallsPerOperationWitness ==
    /\ ValidFilter
    /\ ret.op = "find"
    /\ ~ret.val
    /\ numHashes = 2
    /\ calls = 1

(* C12 - Sizing monotonicity: the size of a new filter is the integer      *)
(* floor of k / (1 - (1 - p^(1/k))^(1/n)), and for its hash count k, any   *)
(* key counts n1 <= n2 and any rates p1 <= p2, __bitsNeeded(n2, k, p1)     *)
(* returns at least __bitsNeeded(n1, k, p2): more keys or a stricter rate  *)
(* never give fewer bits.                                                  *)
SizingMonotone ==
    (ret.op = "create" /\ ValidFilter) =>
        /\ size >= numHashes
        /\ BitsAtLeast(size, numKeys, numHashes, maxFalse)
        /\ ~BitsAtLeast(size + 1, numKeys, numHashes, maxFalse)
        /\ \A n1 \in 1 .. MaxNumKeys, n2 \in 1 .. MaxNumKeys,
              p1 \in SizingRates \cup {maxFalse}, p2 \in SizingRates \cup {maxFalse} :
              (n1 <= n2 /\ RateLeq(p1, p2)) =>
                  LET few == bitsNeeded(n1, numHashes, p2)
                      many == bitsNeeded(n2, numHashes, p1)
                  IN  /\ few.raises = ""
                      /\ many.raises = ""
                      /\ few.value <= many.value

\* A new filter for one key that would be larger for two keys, and larger
\* for a stricter rate.
SizingMonotoneWitness ==
    /\ ret.op = "create"
    /\ ValidFilter
    /\ numKeys = 1
    /\ bitsNeeded(2, numHashes, maxFalse).value > size
    /\ \E p \in SizingRates :
           /\ RateLeq(p, maxFalse)
           /\ bitsNeeded(numKeys, numHashes, p).value > size

(* C13 - Seed chaining: in insert and in find alike, the indices probed so *)
(* far for a key are the first ones of the one sequence index_j = raw_j    *)
(* mod size with seed_0 = 0, raw_j = BitHash(key, seed_j) and seed_(j+1) = *)
(* raw_j; each lies in 0 .. size - 1; the sequence is a function of the    *)
(* key, the hash count and the size alone, whatever the bits are; insert,  *)
(* and a find that returns True, probe all of it.                          *)
ProbeChaining ==
    (size > 0 /\ snap.key # NoKey /\ pc \in {"idle", "insert", "find"}) =>
        /\ Len(probed) = calls
        /\ calls <= numHashes
        /\ \A j \in 1 .. Len(probed) :
               /\ probed[j] = ChainSeq(snap.key)[j]
               /\ probed[j] \in 0 .. (size - 1)
        /\ pc \in {"insert", "find"} =>
               /\ key = snap.key
               /\ i = calls
               /\ seed = SeedFrom(key, 0, i)
        /\ ret.op = "insert" => probed = ChainSeq(snap.key)
        /\ (ret.op = "find" /\ ret.val) => probed = ChainSeq(snap.key)

\* find returned True for an inserted key whose two probes hit different
\* bits, the second hashed from a seed other than 0.
ProbeChainingWitness ==
    /\ ValidFilter
    /\ ret.op = "find"
    /\ ret.val
    /\ ret.key \in inserted
    /\ numHashes = 2
    /\ probed[1] # probed[2]
    /\ SeedFrom(ret.key, 0, 1) # 0

(* C14 - Insert frame and effect: when insert(key) has returned, the bits  *)
(* at the key's probe indices are 1, every other bit is what it was at the *)
(* call, and numBitsSet has risen by the number of distinct probe indices  *)
(* whose bit was 0 at the call; while the loop runs, no bit off the probe  *)
(* indices differs from the call's.                                        *)
InsertFrameAndEffect ==
    /\ (pc = "insert" /\ size > 0) =>
           \A idx \in DOMAIN bitVec \ ChainSet(snap.key) :
               bitVec[idx] = snap.bitVec[idx]
    /\ ret.op = "insert" =>
           /\ bitVec = [idx \in DOMAIN snap.bitVec |->
                           IF idx \in ChainSet(snap.key) THEN 1 ELSE snap.bitVec[idx]]
           /\ numBitsSet = snap.numBitsSet
                  + Cardinality({idx \in ChainSet(snap.key) : snap.bitVec[idx] = 0})

\* insert returned after probing one bit that was set, one that was clear,
\* and leaving a third one alone.
InsertFrameAndEffectWitness ==
    /\ ret.op = "insert"
    /\ \E a \in ChainSet(snap.key), b \in ChainSet(snap.key) :
           snap.bitVec[a] = 1 /\ snap.bitVec[b] = 0
    /\ DOMAIN bitVec \ ChainSet(snap.key) # {}

(* C15 - Only insert mutates: no step of find (its call, an iteration, an  *)
(* early return of False, the return of True), of falsePositiveRate or of  *)
(* numBitsSet changes the bit vector, the count of set bits, the size or   *)
(* the hash count.                                                         *)
OnlyInsertMutates ==
    [][(pc \in {"idle", "find"} /\ pc' # "insert") =>
           UNCHANGED <<bitVec, numBitsSet, size, numHashes>>]_vars

\* find has returned False before its last probe, on a filter with bits
\* set.
OnlyInsertMutatesWitness ==
    /\ ret.op = "find"
    /\ ~ret.val
    /\ calls < numHashes
    /\ numBitsSet > 0
    /\ bitVec = snap.bitVec

(* C17 - Membership is permanent: once find(K) has returned True, every    *)
(* later find(K) returns True, whatever was inserted in between.           *)
FoundStaysFound ==
    [][(pc = "find" /\ pc' = "idle" /\ key \in foundTrue) => ret'.val]_vars

\* find(K) is about to return for a key it has answered True for, after an
\* insert made since that answer, with all its probes done.
FoundStaysFoundWitness ==
    /\ pc = "find"
    /\ key \in foundTrue
    /\ ~quiet[key]
    /\ inserted = Keys
    /\ numHashes = 2
    /\ i = numHashes

(* C18 - Insert is idempotent: an insert of a key that was inserted before *)
(* returns with the bit vector and the count of set bits as they were at   *)
(* the call.                                                               *)
InsertIdempotent ==
    (ret.op = "insert" /\ snap.was) =>
        /\ bitVec = snap.bitVec
        /\ numBitsSet = snap.numBitsSet

\* A key inserted before has been inserted again, into a filter that also
\* holds the other key and has a bit left clear.
InsertIdempotentWitness ==
    /\ ret.op = "insert"
    /\ snap.was
    /\ inserted = Keys
    /\ numBitsSet > 0
    /\ numBitsSet < size

(* C19 - Insert is order-independent: between inserts, the bit vector and  *)
(* the count of set bits are a function of the set of keys inserted (and   *)
(* of the hash function, the hash count and the size): the bits that are 1 *)
(* are the probe indices of the inserted keys, and numBitsSet is their     *)
(* number, in whatever order, and however often, the keys were inserted.   *)
InsertOrderIndependent ==
    (size > 0 /\ pc \in {"idle", "find"}) =>
        LET all == ChainSetOfAll(inserted)
        IN  /\ DOMAIN bitVec = 0 .. (size - 1)
            /\ \A idx \in DOMAIN bitVec : bitVec[idx] = IF idx \in all THEN 1 ELSE 0
            /\ numBitsSet = Cardinality(all)

\* Both keys are in, their probe indices differ and overlap, and a bit is
\* left clear.
InsertOrderIndependentWitness ==
    /\ pc = "idle"
    /\ size > 0
    /\ ret.op = "insert"
    /\ inserted = Keys
    /\ ChainSet("a") # ChainSet("b")
    /\ ChainSet("a") \cap ChainSet("b") # {}
    /\ numBitsSet < size

(* C16 - Unsynchronised inserts: with two threads inserting one at a time, *)
(* the count of set bits plus the bits a running insert has written and    *)
(* not yet counted equals the number of bits that are 1, so between calls  *)
(* the two agree; when the calls interleave at the reads and writes of the *)
(* bit and of the counter and probe the same index, a state where they     *)
(* differ is reached (the witness).                                        *)
SerialInsertsKeepCount ==
    ~overlap =>
        /\ numBitsSet
               + Cardinality({t \in Threads : threads[t].pc \in {"readCount", "writeCount"}})
           = Cardinality(BitsSet(bitVec))
        /\ (\A t \in Threads : ~Busy(t)) => numBitsSet = Cardinality(BitsSet(bitVec))

\* Both threads have returned from inserts that interleaved, each probed
\* the same single index, and the count is not the number of bits set.
SerialInsertsKeepCountWitness ==
    /\ pc = "threads"
    /\ overlap
    /\ \A t \in Threads : threads[t].pc = "done"
    /\ numHashes = 1
    /\ ChainSet(threads[1].key) = ChainSet(threads[2].key)
    /\ numBitsSet # Cardinality(BitsSet(bitVec))

=============================================================================
